---- MODULE Spec2Model ----
(***************************************************************************)
(* State-machine model of the x402 agent runner (src/main.py): import-time *)
(* extraction of data.json and .env loading, argument parsing, credential  *)
(* loading, the remote session, the agent run and the error handler of     *)
(* main().  The file system beside the program survives from one process   *)
(* invocation to the next; every other variable is per-process.            *)
(***************************************************************************)
EXTENDS Integers, Sequences, FiniteSets, TLC

\* Number of write() chunks shutil.copy2 needs for the bundled data.json.
CopyChunks == 2
\* Number of process invocations followed on the same installation.
MaxRuns == 2
\* Largest number of query words on the command line.
MaxQueryWords == 2

VARIABLES
    frozen,        \* getattr(sys, 'frozen', False)
    hasMEIPASS,    \* hasattr(sys, '_MEIPASS')
    bundleData,    \* <sys._MEIPASS>/data.json
    exeData,       \* <dir of sys.executable>/data.json
    scriptData,    \* <dir of main.py>/data.json
    bundleEnv,     \* <sys._MEIPASS>/.env exists
    exeEnv,        \* <dir of sys.executable>/.env exists
    cwdEnv,        \* the .env that load_dotenv() finds by default exists
    osEnvKey,      \* ANTHROPIC_API_KEY is set by the parent process
    runs,          \* invocations started so far
    pc,            \* position of the running process
    caller,        \* who called extract_bundled_files: "module" or "get_data_path"
    argv,          \* sys.argv[1:]
    stdout,        \* what was printed to standard output, in order
    stderr,        \* what was printed to standard error, in order
    exitCode,      \* process exit status, -1 while running
    error,         \* the exception that ended the run, "none" if none
    credentials,   \* what load_credentials returned
    response,      \* what process_query returned
    environ,       \* where os.environ['ANTHROPIC_API_KEY'] comes from
    envLoaded,     \* the file handed to load_dotenv that existed
    dataPath,      \* what get_data_path returned
    reads,         \* files whose existence or content was looked at
    writes,        \* files created or written
    stagesRun,     \* pipeline stages executed by this invocation
    calls,         \* remote calls and agent invocation, in order
    clientBuilt,   \* MCPClientCredentials was constructed
    llmBuilt,      \* ChatAnthropic construction was attempted
    copies         \* destination files created by shutil.copy2, over all runs

install == <<frozen, hasMEIPASS, bundleData, bundleEnv, exeEnv, cwdEnv, osEnvKey, scriptData>>
process == <<argv, stdout, stderr, exitCode, error, credentials, response,
             environ, envLoaded, dataPath, reads, writes, stagesRun, calls,
             clientBuilt, llmBuilt>>
vars == <<install, exeData, runs, pc, caller, copies, process>>

----------------------------------------------------------------------------
(* Strings are sequences of characters, so that str.join and truthiness    *)
(* are computed, not assumed.                                              *)

EmptyStr == << >>
Blank == <<" ">>
Ident == <<"a">>

\* Values a "value" key of data.json carries.
Values == {EmptyStr, Blank, Ident}

\* Python truthiness of a str: `not s` is true exactly for ''.
Truthy(s) == Len(s) > 0

\* dict.get(key, default)
Get(d, k, default) == IF k \in DOMAIN d THEN d[k] ELSE default

EmptyDict == [x \in {} |-> EmptyStr]

\* One field of the "editable" object: {"value": v}, or {} without the key.
Fields == {EmptyDict} \cup {[value |-> v] : v \in Values}

\* The "editable" object: each required field present or not.
Editables ==
    {EmptyDict}
    \cup {[locus_client_id |-> f] : f \in Fields \ {EmptyDict}}
    \cup {[locus_client_secret |-> f] : f \in Fields \ {EmptyDict}}
    \cup {[locus_client_id |-> f, locus_client_secret |-> g] : f \in Fields, g \in Fields}

\* Parsed documents of a data.json: with or without the "editable" key.
Docs == {EmptyDict} \cup {[editable |-> e] : e \in Editables}

\* A file on disk: the document it was written from and how many of its
\* CopyChunks chunks are there.  written = CopyChunks is the whole file.
NoFile == [exists |-> FALSE, doc |-> EmptyDict, written |-> 0]
WholeFile(d) == [exists |-> TRUE, doc |-> d, written |-> CopyChunks]
Complete(f) == f.exists /\ f.written = CopyChunks

\* The data.json the build puts into the bundle (build_exe.py bundles the
\* project's data.json).
BundledDoc ==
    [editable |-> [locus_client_id |-> [value |-> Ident],
                   locus_client_secret |-> [value |-> Ident]]]

----------------------------------------------------------------------------
(* Pure helpers of the program.                                            *)

\* Variant: the test of line 29 without `not target_data_json.exists()`.
NeedsCopyOverwriting ==
    /\ frozen
    /\ hasMEIPASS
    /\ bundleData.exists

\* extract_bundled_files, lines 17-29: the condition under which copy2 runs.
NeedsCopy ==
    /\ frozen
    /\ hasMEIPASS
    /\ bundleData.exists
    /\ ~exeData.exists

\* Files extract_bundled_files looks at (the `and` of line 29 short-circuits).
ExtractReads ==
    IF frozen /\ hasMEIPASS
    THEN {"bundle/data.json"} \cup (IF bundleData.exists THEN {"exe/data.json"} ELSE {})
    ELSE {}

\* Variant: the script directory is used in both modes.
GetDataPathScriptDir == "script/data.json"

\* get_data_path, lines 39-46: the path it returns.
GetDataPath == IF frozen THEN "exe/data.json" ELSE "script/data.json"

\* The file behind a path returned by get_data_path.
FileAt(path) == IF path = "exe/data.json" THEN exeData ELSE scriptData

\* Lines 51-66: the file handed to load_dotenv, "none" when no call loads one.
EnvFileLoaded ==
    IF frozen
    THEN IF hasMEIPASS
         THEN IF bundleEnv THEN "bundle/.env"
              ELSE IF exeEnv THEN "exe/.env" ELSE "none"
         ELSE "none"
    ELSE IF cwdEnv THEN "default/.env" ELSE "none"

\* Lines 51-66: the .env files whose existence is tested or that are opened.
EnvReads ==
    IF frozen
    THEN IF hasMEIPASS
         THEN {"bundle/.env"} \cup (IF bundleEnv THEN {} ELSE {"exe/.env"})
         ELSE {}
    ELSE {"default/.env"}

\* ' '.join(words)
RECURSIVE Join(_)
Join(words) ==
    IF Len(words) = 0 THEN EmptyStr
    ELSE IF Len(words) = 1 THEN words[1]
    ELSE words[1] \o <<" ">> \o Join(Tail(words))

\* argparse, lines 138-142: command must be one of choices=['run'] and
\* nargs='+' needs at least one query word; otherwise parser.error().
ParseArgsOk(a) == a.command \in {"run"} /\ Len(a.query) >= 1

\* load_credentials, lines 80-83: the two looked-up values.
ClientId(data) ==
    Get(Get(Get(data, "editable", EmptyDict), "locus_client_id", EmptyDict),
        "value", EmptyStr)
ClientSecret(data) ==
    Get(Get(Get(data, "editable", EmptyDict), "locus_client_secret", EmptyDict),
        "value", EmptyStr)

\* Variant: line 85 with `and` for `or`.
CredentialsRejectedBoth(data) == ~Truthy(ClientId(data)) /\ ~Truthy(ClientSecret(data))

\* load_credentials, line 85: the test that raises ValueError.
CredentialsRejected(data) == ~Truthy(ClientId(data)) \/ ~Truthy(ClientSecret(data))

NoCredentials == [set |-> FALSE, client_id |-> EmptyStr, client_secret |-> EmptyStr]

\* Terminal messages of the reasoning loop: a message object whose content is
\* a str or a list of content blocks, or an object without a content attribute.
TextPayload == [type |-> "str", of |-> "content"]
BlocksPayload == [type |-> "list", of |-> "content"]
LastMessages ==
    {[hasContent |-> TRUE, content |-> TextPayload],
     [hasContent |-> TRUE, content |-> BlocksPayload],
     [hasContent |-> FALSE, content |-> TextPayload]}

\* str(x): the textual representation of any object.
Str(m) == [type |-> "str", of |-> "repr"]

\* process_query, lines 129-133: what is returned for the last message.
ExtractAnswer(m) == IF m.hasContent THEN m.content ELSE Str(m)

NoResponse == [type |-> "none", of |-> "none"]

----------------------------------------------------------------------------
(* How a run ends on an exception.                                         *)

\* main, lines 168-173: the except block prints the message and the header
\* to stdout, the traceback to stderr, and exits 1.
Handled(err) ==
    /\ error' = err
    /\ stdout' = stdout \o <<"error_message", "traceback_header">>
    /\ stderr' = stderr \o <<"traceback">>
    /\ exitCode' = 1
    /\ pc' = "failed"

\* An exception outside main's try block: the interpreter prints the
\* traceback to stderr and exits 1.
Uncaught(err) ==
    /\ error' = err
    /\ stdout' = stdout
    /\ stderr' = stderr \o <<"traceback">>
    /\ exitCode' = 1
    /\ pc' = "crashed"

\* Line 50 is module level, outside the try; line 36 is reached from
\* load_credentials, inside it.
Raise(err) == IF caller = "module" THEN Uncaught(err) ELSE Handled(err)

\* Where extract_bundled_files returns to.
AfterExtract == IF caller = "module" THEN "load_env" ELSE "load_credentials"

Terminal == {"done", "failed", "crashed", "usage_exit"}

----------------------------------------------------------------------------
(* Initial state: an installation, and a process that was just started.    *)

Commands == {"run", "bogus"}
Words == {EmptyStr, <<"h">>}
QueryLists == UNION {[1..n -> Words] : n \in 0..MaxQueryWords}
Argvs == [command : Commands, query : QueryLists]
NoArgv == [command |-> "unparsed", query |-> << >>]

SecretsFiles == {NoFile} \cup {WholeFile(d) : d \in Docs}

Init ==
    /\ frozen \in BOOLEAN
    /\ hasMEIPASS \in (IF frozen THEN BOOLEAN ELSE {FALSE})
    /\ bundleData \in (IF hasMEIPASS THEN {NoFile, WholeFile(BundledDoc)} ELSE {NoFile})
    /\ exeData \in (IF frozen THEN SecretsFiles ELSE {NoFile})
    /\ scriptData \in (IF frozen THEN {NoFile} ELSE SecretsFiles)
    /\ bundleEnv \in (IF hasMEIPASS THEN BOOLEAN ELSE {FALSE})
    /\ exeEnv \in (IF frozen THEN BOOLEAN ELSE {FALSE})
    /\ cwdEnv \in (IF frozen THEN {FALSE} ELSE BOOLEAN)
    /\ osEnvKey \in BOOLEAN
    /\ runs = 1
    /\ copies = 0
    /\ pc = "import"
    /\ caller = "module"
    /\ argv = NoArgv
    /\ stdout = << >>
    /\ stderr = << >>
    /\ exitCode = -1
    /\ error = "none"
    /\ credentials = NoCredentials
    /\ response = NoResponse
    /\ environ = (IF osEnvKey THEN "parent" ELSE "unset")
    /\ envLoaded = "none"
    /\ dataPath = "none"
    /\ reads = {}
    /\ writes = {}
    /\ stagesRun = {}
    /\ calls = << >>
    /\ clientBuilt = FALSE
    /\ llmBuilt = FALSE

----------------------------------------------------------------------------
(* extract_bundled_files, called at line 50 (module level) and at line 36  *)
(* (get_data_path).                                                        *)

ExtractBundledFiles ==
    /\ pc \in {"import", "get_data_path"}
    /\ caller' = (IF pc = "import" THEN "module" ELSE "get_data_path")
    /\ reads' = reads \cup ExtractReads
    /\ stagesRun' = stagesRun \cup {"paths"}
    /\ pc' = (IF NeedsCopy THEN "copy_open"
              ELSE IF pc = "import" THEN "load_env" ELSE "load_credentials")
    /\ UNCHANGED <<install, exeData, runs, copies, argv, stdout, stderr, exitCode,
                   error, credentials, response, environ, envLoaded, dataPath,
                   writes, calls, clientBuilt, llmBuilt>>

\* shutil.copy2, line 30: the destination is opened for writing, which
\* creates it empty (or truncates it); opening can fail with OSError.
CopyOpen ==
    /\ pc = "copy_open"
    /\ \E ok \in BOOLEAN :
        IF ok
        THEN /\ exeData' = [exists |-> TRUE, doc |-> bundleData.doc, written |-> 0]
             /\ copies' = copies + 1
             /\ writes' = writes \cup {"exe/data.json"}
             /\ reads' = reads \cup {"bundle/data.json"}
             /\ pc' = "copying"
             /\ UNCHANGED <<error, stdout, stderr, exitCode>>
        ELSE /\ Raise("OSError")
             /\ UNCHANGED <<exeData, copies, writes, reads>>
    /\ UNCHANGED <<install, runs, caller, argv, credentials, response, environ,
                   envLoaded, dataPath, stagesRun, calls, clientBuilt, llmBuilt>>

\* shutil.copy2, line 30: the content is written chunk by chunk; a write can
\* fail with OSError, and what was written stays on disk.
CopyWrite ==
    /\ pc = "copying"
    /\ exeData.written < CopyChunks
    /\ \E ok \in BOOLEAN :
        IF ok
        THEN /\ exeData' = [exeData EXCEPT !.written = @ + 1]
             /\ UNCHANGED <<pc, error, stdout, stderr, exitCode>>
        ELSE /\ Raise("OSError")
             /\ UNCHANGED exeData
    /\ UNCHANGED <<install, runs, caller, copies, argv, credentials, response,
                   environ, envLoaded, dataPath, reads, writes, stagesRun, calls,
                   clientBuilt, llmBuilt>>

\* shutil.copy2, line 30: everything is written and the call returns.
CopyDone ==
    /\ pc = "copying"
    /\ exeData.written = CopyChunks
    /\ pc' = AfterExtract
    /\ UNCHANGED <<install, exeData, runs, caller, copies, process>>

----------------------------------------------------------------------------
(* Module level, lines 51-66: load .env.  load_dotenv does not override a  *)
(* variable that is already set and does nothing when the file is missing. *)

LoadEnv ==
    /\ pc = "load_env"
    /\ envLoaded' = EnvFileLoaded
    /\ environ' = (IF environ = "unset" /\ EnvFileLoaded # "none"
                   THEN EnvFileLoaded ELSE environ)
    /\ reads' = reads \cup EnvReads
    /\ stagesRun' = stagesRun \cup {"env"}
    /\ pc' = "main"
    /\ UNCHANGED <<install, exeData, runs, caller, copies, argv, stdout, stderr,
                   exitCode, error, credentials, response, dataPath, writes,
                   calls, clientBuilt, llmBuilt>>

----------------------------------------------------------------------------
(* main, lines 136-153: argument parsing and the two usage checks.         *)

Main ==
    /\ pc = "main"
    /\ \E a \in Argvs :
        /\ argv' = a
        /\ IF ~ParseArgsOk(a)
           THEN \* parser.error(): usage and message on stderr, exit status 2
                /\ stderr' = stderr \o <<"usage", "argparse_error">>
                /\ exitCode' = 2
                /\ pc' = "usage_exit"
                /\ UNCHANGED stdout
           ELSE IF a.command # "run"
           THEN /\ stdout' = stdout \o <<"error_invalid_command", "usage">>
                /\ exitCode' = 1
                /\ pc' = "usage_exit"
                /\ UNCHANGED stderr
           ELSE IF ~Truthy(Join(a.query))
           THEN /\ stdout' = stdout \o <<"error_query_required", "usage">>
                /\ exitCode' = 1
                /\ pc' = "usage_exit"
                /\ UNCHANGED stderr
           ELSE /\ pc' = "get_data_path"
                /\ UNCHANGED <<stdout, stderr, exitCode>>
    /\ UNCHANGED <<install, exeData, runs, caller, copies, error, credentials,
                   response, environ, envLoaded, dataPath, reads, writes,
                   stagesRun, calls, clientBuilt, llmBuilt>>

----------------------------------------------------------------------------
(* load_credentials, lines 71-92, after its call of get_data_path has run  *)
(* extract_bundled_files.                                                  *)

LoadCredentials ==
    /\ pc = "load_credentials"
    /\ dataPath' = GetDataPath
    /\ reads' = reads \cup {GetDataPath}
    /\ stagesRun' = stagesRun \cup {"credentials"}
    /\ LET f == FileAt(GetDataPath) IN
        IF ~f.exists
        THEN Handled("FileNotFoundError") /\ UNCHANGED credentials
        ELSE IF f.written < CopyChunks
        THEN \* json.load on a truncated document
             Handled("JSONDecodeError") /\ UNCHANGED credentials
        ELSE IF CredentialsRejected(f.doc)
        THEN Handled("ValueError") /\ UNCHANGED credentials
        ELSE /\ credentials' = [set |-> TRUE,
                                client_id |-> ClientId(f.doc),
                                client_secret |-> ClientSecret(f.doc)]
             /\ pc' = "create_client"
             /\ UNCHANGED <<error, stdout, stderr, exitCode>>
    /\ UNCHANGED <<install, exeData, runs, caller, copies, argv, response,
                   environ, envLoaded, writes, calls, clientBuilt, llmBuilt>>

----------------------------------------------------------------------------
(* process_query, lines 95-133.                                            *)

\* Lines 98-109: the client object is built from the credentials.
CreateClient ==
    /\ pc = "create_client"
    /\ clientBuilt' = TRUE
    /\ stagesRun' = stagesRun \cup {"session"}
    /\ pc' = "initialize"
    /\ UNCHANGED <<install, exeData, runs, caller, copies, argv, stdout, stderr,
                   exitCode, error, credentials, response, environ, envLoaded,
                   dataPath, reads, writes, calls, llmBuilt>>

\* Variant: a failed initialize() is tried again instead of raising.
ClientInitializeRetrying ==
    /\ pc = "initialize"
    /\ calls' = Append(calls, "initialize")
    /\ \E ok \in BOOLEAN :
        /\ pc' = (IF ok \/ Len(calls) >= 2 THEN "get_tools" ELSE "initialize")
        /\ UNCHANGED <<error, stdout, stderr, exitCode>>
    /\ UNCHANGED <<install, exeData, runs, caller, copies, argv, credentials,
                   response, environ, envLoaded, dataPath, reads, writes,
                   stagesRun, clientBuilt, llmBuilt>>

\* Line 112: await client.initialize(); it returns or raises.
ClientInitialize ==
    /\ pc = "initialize"
    /\ calls' = Append(calls, "initialize")
    /\ \E ok \in BOOLEAN :
        IF ok
        THEN pc' = "get_tools" /\ UNCHANGED <<error, stdout, stderr, exitCode>>
        ELSE Handled("InitializeError")
    /\ UNCHANGED <<install, exeData, runs, caller, copies, argv, credentials,
                   response, environ, envLoaded, dataPath, reads, writes,
                   stagesRun, clientBuilt, llmBuilt>>

\* Line 113: tools = await client.get_tools(); it returns or raises.
GetTools ==
    /\ pc = "get_tools"
    /\ calls' = Append(calls, "get_tools")
    /\ \E ok \in BOOLEAN :
        IF ok
        THEN pc' = "create_llm" /\ UNCHANGED <<error, stdout, stderr, exitCode>>
        ELSE Handled("ToolsError")
    /\ UNCHANGED <<install, exeData, runs, caller, copies, argv, credentials,
                   response, environ, envLoaded, dataPath, reads, writes,
                   stagesRun, clientBuilt, llmBuilt>>

\* Lines 116-119: the language-model client is built; construction can raise.
CreateLLM ==
    /\ pc = "create_llm"
    /\ llmBuilt' = TRUE
    /\ stagesRun' = stagesRun \cup {"agent"}
    /\ \E ok \in BOOLEAN :
        IF ok
        THEN pc' = "invoke" /\ UNCHANGED <<error, stdout, stderr, exitCode>>
        ELSE Handled("ModelError")
    /\ UNCHANGED <<install, exeData, runs, caller, copies, argv, credentials,
                   response, environ, envLoaded, dataPath, reads, writes, calls,
                   clientBuilt>>

\* Lines 121-133: the agent is built and invoked once; the answer is taken
\* from the last message, or the invocation raises.
AgentInvoke ==
    /\ pc = "invoke"
    /\ calls' = Append(calls, "ainvoke")
    /\ \E ok \in BOOLEAN, m \in LastMessages :
        IF ok
        THEN /\ response' = ExtractAnswer(m)
             /\ pc' = "print"
             /\ UNCHANGED <<error, stdout, stderr, exitCode>>
        ELSE Handled("ModelError") /\ UNCHANGED response
    /\ UNCHANGED <<install, exeData, runs, caller, copies, argv, credentials,
                   environ, envLoaded, dataPath, reads, writes, stagesRun,
                   clientBuilt, llmBuilt>>

\* main, line 167: print(response), then the process ends with status 0.
PrintResponse ==
    /\ pc = "print"
    /\ stdout' = Append(stdout, "answer")
    /\ exitCode' = 0
    /\ pc' = "done"
    /\ UNCHANGED <<install, exeData, runs, caller, copies, argv, stderr, error,
                   credentials, response, environ, envLoaded, dataPath, reads,
                   writes, stagesRun, calls, clientBuilt, llmBuilt>>

----------------------------------------------------------------------------
(* The program is started again on the same installation.                  *)

Restart ==
    /\ pc \in Terminal
    /\ runs < MaxRuns
    /\ runs' = runs + 1
    /\ pc' = "import"
    /\ caller' = "module"
    /\ argv' = NoArgv
    /\ stdout' = << >>
    /\ stderr' = << >>
    /\ exitCode' = -1
    /\ error' = "none"
    /\ credentials' = NoCredentials
    /\ response' = NoResponse
    /\ environ' = (IF osEnvKey THEN "parent" ELSE "unset")
    /\ envLoaded' = "none"
    /\ dataPath' = "none"
    /\ reads' = {}
    /\ writes' = {}
    /\ stagesRun' = {}
    /\ calls' = << >>
    /\ clientBuilt' = FALSE
    /\ llmBuilt' = FALSE
    /\ UNCHANGED <<install, exeData, copies>>

Next ==
    \/ ExtractBundledFiles
    \/ CopyOpen
    \/ CopyWrite
    \/ CopyDone
    \/ LoadEnv
    \/ Main
    \/ LoadCredentials
    \/ CreateClient
    \/ ClientInitialize
    \/ GetTools
    \/ CreateLLM
    \/ AgentInvoke
    \/ PrintResponse
    \/ Restart

Spec == Init /\ [][Next]_vars

----------------------------------------------------------------------------
(* Vocabulary of the properties.                                           *)

\* str.strip(): leading and trailing blanks removed.
RECURSIVE LStrip(_)
LStrip(s) == IF Len(s) > 0 /\ Head(s) = " " THEN LStrip(Tail(s)) ELSE s
RECURSIVE RStrip(_)
RStrip(s) ==
    IF Len(s) > 0 /\ s[Len(s)] = " " THEN RStrip(SubSeq(s, 1, Len(s) - 1)) ELSE s
Trim(s) == RStrip(LStrip(s))

\* The secrets file of the installation's mode.
SecretsFile == IF frozen THEN exeData ELSE scriptData

\* The order the three awaited calls of process_query are written in.
CallOrder == <<"initialize", "get_tools", "ainvoke">>

IsPrefix(s, t) == Len(s) <= Len(t) /\ \A i \in 1..Len(s) : s[i] = t[i]

DoneOutcome ==
    /\ pc = "done"
    /\ exitCode = 0
    /\ stdout = <<"answer">>
    /\ stderr = << >>

FailedOutcome ==
    /\ exitCode = 1
    /\ stdout = <<"error_message", "traceback_header">>
    /\ stderr = <<"traceback">>

UsageOutcome ==
    /\ pc = "usage_exit"
    /\ exitCode = 1
    /\ Len(stdout) = 2
    /\ stdout[2] = "usage"

\* The environment file the search order of the specification selects.
EnvFileBySearchOrder ==
    IF frozen
    THEN IF bundleEnv THEN "bundle/.env" ELSE IF exeEnv THEN "exe/.env" ELSE "none"
    ELSE IF cwdEnv THEN "default/.env" ELSE "none"

----------------------------------------------------------------------------
(* Properties.                                                             *)

\* C1: once load_credentials has read a secrets file that parses, a field
\* that is absent or whose value is empty after trimming makes it fail with
\* the validation error and yield no credentials; otherwise it returns
\* exactly the two values of the file.
C1_LoadCredentialsValidates ==
    (dataPath # "none" /\ Complete(FileAt(dataPath))) =>
        LET d == FileAt(dataPath).doc IN
        IF Trim(ClientId(d)) = EmptyStr \/ Trim(ClientSecret(d)) = EmptyStr
        THEN error = "ValueError" /\ ~credentials.set
        ELSE credentials = [set |-> TRUE, client_id |-> ClientId(d),
                            client_secret |-> ClientSecret(d)]

\* C2: no step outside a running copy changes a secrets file that exists
\* beside the binary; a destination is created only when none exists and
\* the bundle has one; at most one destination is ever created.
C2_ExistingSecretsPreserved ==
    [][ /\ (exeData.exists /\ pc # "copying") => exeData' = exeData
        /\ copies' # copies =>
              (frozen /\ hasMEIPASS /\ bundleData.exists /\ ~exeData.exists)
        /\ copies' <= 1 ]_vars

\* C2 witness: the second extraction of the second run has returned, beside
\* a secrets file whose content differs from the bundled one.
C2_Witness ==
    /\ runs = 2
    /\ caller = "get_data_path"
    /\ pc = "load_credentials"
    /\ bundleData.exists
    /\ Complete(exeData)
    /\ exeData.doc # bundleData.doc

\* C3: whatever process_query returned is a string.
C3_ResponseIsString ==
    pc \in {"print", "done"} => response.type = "str"

\* C4: a failure ends the run at once and no later stage has run: with the
\* secrets file absent or a credential value empty no client is built and no
\* remote call is made; after a failed initialization or tool discovery the
\* language-model client is not built and the agent is not invoked.
C4_FailFast ==
    /\ error # "none" => pc \in {"failed", "crashed"}
    /\ error = "OSError" => stagesRun \subseteq {"paths"}
    /\ (\/ ~SecretsFile.exists
        \/ /\ Complete(SecretsFile)
           /\ \/ ClientId(SecretsFile.doc) = EmptyStr
              \/ ClientSecret(SecretsFile.doc) = EmptyStr)
       => (~clientBuilt /\ calls = << >> /\ ~llmBuilt
           /\ stagesRun \cap {"session", "agent"} = {})
    /\ error \in {"InitializeError", "ToolsError"} =>
          (~llmBuilt /\ "agent" \notin stagesRun
           /\ \A i \in 1..Len(calls) : calls[i] # "ainvoke")

\* C4 witness: load_credentials has rejected a file whose client secret is
\* empty, and nothing of the session exists.
C4_Witness ==
    /\ pc = "failed"
    /\ error = "ValueError"
    /\ Complete(SecretsFile)
    /\ Truthy(ClientId(SecretsFile.doc))
    /\ ClientSecret(SecretsFile.doc) = EmptyStr
    /\ ~clientBuilt

\* C5: once the arguments are known, a subcommand other than run or an empty
\* joined query ends in the usage error on stdout with status 1, and no
\* pipeline stage was executed by the invocation.
C5_UsageErrorRunsNoStage ==
    (argv # NoArgv /\ (argv.command # "run" \/ Join(argv.query) = EmptyStr)) =>
        (UsageOutcome /\ stagesRun = {})

\* C6: a run that ends otherwise than by a usage error ends as Done (answer
\* printed, no trace, status 0) or as Failed (message and trace printed,
\* status 1), whichever stage failed.
C6_TerminalOutcome ==
    pc \in (Terminal \ {"usage_exit"}) => (DoneOutcome \/ (pc # "done" /\ FailedOutcome))

\* C7: once the environment was loaded, the file loaded is the first existing
\* one of the search order, and with none the environment is as inherited.
C7_EnvSearchOrder ==
    "env" \in stagesRun =>
        /\ envLoaded = EnvFileBySearchOrder
        /\ EnvFileBySearchOrder = "none" =>
              environ = (IF osEnvKey THEN "parent" ELSE "unset")

\* C8: the secrets path follows the mode; script mode copies nothing and
\* looks at nothing of a bundle; packaged mode writes nothing but the
\* secrets file beside the binary, in particular no environment file.
C8_PathsFollowMode ==
    /\ dataPath # "none" =>
          dataPath = (IF frozen THEN "exe/data.json" ELSE "script/data.json")
    /\ ~frozen =>
          /\ copies = 0
          /\ writes = {}
          /\ reads \subseteq {"script/data.json", "default/.env"}
    /\ frozen =>
          /\ writes \subseteq {"exe/data.json"}
          /\ reads \subseteq {"bundle/data.json", "exe/data.json",
                              "bundle/.env", "exe/.env"}

\* C8 witness: a packaged run that copied the secrets file out, loaded the
\* bundled environment file and resolved the secrets path.
C8_Witness ==
    /\ frozen
    /\ dataPath = "exe/data.json"
    /\ writes = {"exe/data.json"}
    /\ envLoaded = "bundle/.env"

\* C9: outside a running copy, the secrets file beside the binary is absent
\* or whole, and when it was copied it has the bundled content.
C9_DestinationAbsentOrComplete ==
    pc # "copying" =>
        \/ ~exeData.exists
        \/ /\ exeData.written = CopyChunks
           /\ copies > 0 => exeData.doc = bundleData.doc

\* C10: the awaited calls happen in the written order, each at most once;
\* a run that built the client and ended has called initialize; a failed
\* remote step is the last call of the run.
C10_SingleRoundNoRetry ==
    /\ IsPrefix(calls, CallOrder)
    /\ (clientBuilt /\ pc \in Terminal) => Len(calls) >= 1
    /\ error = "InitializeError" => calls = <<"initialize">>
    /\ error = "ToolsError" => calls = <<"initialize", "get_tools">>

\* C10 witness: a run that ended after tool discovery failed.
C10_Witness ==
    /\ pc = "failed"
    /\ error = "ToolsError"
    /\ calls = <<"initialize", "get_tools">>

====
